---------------------------- MODULE Spec2Model ----------------------------
(***************************************************************************)
(* Minesweeper (Code.org App Lab program): mine generation with the        *)
(* no-surround / no-island validator, group ids of mine clusters, the      *)
(* flood reveal, flags, win / lose and the round lifecycle.                *)
(*                                                                         *)
(* A canvas click that runs populateMines is split at the call boundaries  *)
(* of the handler (the program is single threaded, so no other handler     *)
(* runs in between): pc = "draw" is the entry of randomMinablePos,         *)
(* pc = "check" the evaluation of generateMine's loop condition with the   *)
(* candidate tentatively a Mine, pc = "finish" the return of the           *)
(* generation loop of populateMines.  Every other handler is one action.   *)
(* Drawing primitives are left out; setScreen, showElement and hideElement *)
(* are kept as far as they decide which handler can run.                   *)
(***************************************************************************)
EXTENDS Integers, Sequences, FiniteSets

VARIABLES
    dimension,            \* var dimension
    totalMines,           \* var totalMines
    grid,                 \* var grid: flat array, index x + y * dimension
    minables,             \* var minables: list of positions still drawable
    currentId,            \* var currentId
    hasGenMines,          \* var hasGenMines
    isLost,               \* var isLost
    numRemainingFlags,    \* var numRemainingFlags
    remainingClearCells,  \* var remainingClearCells
    stopTimer,            \* var stopTimer
    screen,               \* the screen shown (setScreen)
    clickBlocker,         \* whether the element "clickBlocker" is shown
    pc,                   \* position inside the canvas click handler
    clickPos,             \* the handler's clickPos while it runs populateMines
    clickedKind,          \* constructor of the handler's `state' object
    pos,                  \* generateMine's local `pos' (the candidate)
    numCreatedMines,      \* populateMines' loop counter
    populateCalls,        \* populateMines calls of this round so far
    winCalls,             \* calls of win() in this round
    loseCalls,            \* calls of lose() in this round
    lastError,            \* message of the error that ended the last handler
    pendingTicks,         \* setTimeout(tickTimer, ...) calls not yet run
    newDimension,         \* var newDimension
    newTotalMines         \* var newTotalMines

vars == << dimension, totalMines, grid, minables, currentId, hasGenMines,
           isLost, numRemainingFlags, remainingClearCells, stopTimer, screen,
           clickBlocker, pc, clickPos, clickedKind, pos, numCreatedMines,
           populateCalls, winCalls, loseCalls, lastError, pendingTicks,
           newDimension, newTotalMines >>

-----------------------------------------------------------------------------
(* NaN *)

\* The number NaN, which getNumber gives for a text that is no number.  No
\* number the model computes is this integer; the arithmetic and the
\* comparisons that can meet it are the operators below.
NaN == -1000000

isNaN(x) == x = NaN

\* a + b, a - b and a * b: NaN if an operand is NaN.
Plus(a, b) == IF isNaN(a) \/ isNaN(b) THEN NaN ELSE a + b

Minus(a, b) == IF isNaN(a) \/ isNaN(b) THEN NaN ELSE a - b

Times(a, b) == IF isNaN(a) \/ isNaN(b) THEN NaN ELSE a * b

\* a < b and a <= b: false if an operand is NaN.
Less(a, b) == ~isNaN(a) /\ ~isNaN(b) /\ a < b

LessEq(a, b) == ~isNaN(a) /\ ~isNaN(b) /\ a <= b

-----------------------------------------------------------------------------
(* Bounds of the model *)

\* Board sizes and mine counts the settings screen is made to save.  The
\* program starts with 8 x 8 cells and 8 mines; the model starts in the
\* state saveButton leaves for the smallest board the settings inputs
\* accept (dimension 4, for which they accept 4 or 5 mines).
Dimensions == {4}
MineCounts == {4}

\* Values the sliders of the settings screen are moved to in the model of
\* the settings screen; mines are generated on the boards of Dimensions
\* only.
SettingsDimensions == {4, 5}
SettingsMineCounts == {4, 5}

\* What is typed into dimensionInput and minesInput: the values of the
\* sliders and one number below the smallest the handlers accept; in the
\* model of the settings screen also a number of mines above the largest
\* a board of 4 x 4 cells takes, and a text that is no number (NaN), after
\* which a board of 20 x 20 cells and one of NaN cells are saved as well.
\* The game of Spec is played with settings that are numbers.
TypedDimensions == Dimensions \cup {3}
TypedMineCounts == MineCounts \cup {3}
SettingsTypedDimensions == SettingsDimensions \cup {3, NaN}
SettingsTypedMineCounts == SettingsMineCounts \cup {3, 6, NaN}

\* Cells on which the click that runs populateMines falls, and cells the
\* player shift-clicks.
FirstClickCells == {<< 0, 0 >>, << 1, 1 >>, << 3, 1 >>, << 2, 3 >>, << 0, 3 >>,
                    << 3, 3 >>}
ShiftClickCells == {<< 1, 0 >>, << 2, 0 >>}

\* A larger board for the generation of a closed ring of mines: the board
\* and mine count saveButton has saved, the first click, and the cells on
\* which the random draws fall (a 4 x 3 ring around two cells and one cell
\* that joins it to the border).
RingDimensions == {6}
RingMineCounts == {11}
RingClick == << 5, 5 >>
RingCells == {<< 1, 1 >>, << 2, 1 >>, << 3, 1 >>, << 4, 1 >>,
              << 1, 2 >>, << 4, 2 >>,
              << 1, 3 >>, << 2, 3 >>, << 3, 3 >>, << 4, 3 >>,
              << 0, 1 >>}

\* First clicks of the generation that is followed to its end: two centre
\* cells (7 eligible positions) and an edge cell (10 eligible positions).
LiveClickCells == {<< 1, 1 >>, << 2, 2 >>, << 1, 0 >>}

\* randomNumber(0, n - 1) returns one of its first MaxDrawIndex values.
MaxDrawIndex == 1

\* Most cells that carry a flag at the same time.
MaxFlags == 1

\* Most populateMines calls of one round (each but the last one has thrown).
MaxPopulateCalls == 2

\* Most tickTimer timeouts pending at the same time: no populateMines call
\* is started while that many are pending.
MaxPendingTicks == 2

-----------------------------------------------------------------------------
(* Values *)

\* null and undefined: the program compares ids with == and != only, under
\* which the two are equal to each other and to nothing else.
NoId == -1

NoPos == << -1, -1 >>

NoError == "none"
PoolError == "No minable spaces left!"
\* Reading a property of undefined (`state.flagged' with no state).
TypeError == "TypeError"


NORTH     == << 0, -1 >>
NORTHEAST == << 1, -1 >>
EAST      == << 1, 0 >>
SOUTHEAST == << 1, 1 >>
SOUTH     == << 0, 1 >>
SOUTHWEST == << -1, 1 >>
WEST      == << -1, 0 >>
NORTHWEST == << -1, -1 >>

ALL_DIRS == << NORTH, NORTHEAST, EAST, SOUTHEAST, SOUTH, SOUTHWEST, WEST,
               NORTHWEST >>

ORTHO_DIRS == << NORTH, EAST, SOUTH, WEST >>

Open == [kind |-> "Open", id |-> NoId, flagged |-> FALSE]

Close == [kind |-> "Close", id |-> NoId, flagged |-> FALSE]

Mine(id) == [kind |-> "Mine", id |-> id, flagged |-> FALSE]

\* What reading the array outside its indices gives.
Undefined == [kind |-> "undefined", id |-> NoId, flagged |-> FALSE]

-----------------------------------------------------------------------------
(* Vec2 *)

add(a, b) == << a[1] + b[1], a[2] + b[2] >>

subtract(a, b) == << a[1] - b[1], a[2] - b[2] >>

negate(a) == << -a[1], -a[2] >>

clockwise(a) == << a[2], -a[1] >>

\* adjacentTo with one of its four comparisons strict.
adjacentToStrict(a, b) ==
    LET delta == subtract(a, b)
    IN  (-1 < delta[1] /\ delta[1] <= 1) /\ (-1 <= delta[2] /\ delta[2] <= 1)

adjacentTo(a, b) ==
    LET delta == subtract(a, b)
    IN  (-1 <= delta[1] /\ delta[1] <= 1) /\ (-1 <= delta[2] /\ delta[2] <= 1)

inDirs(p, directions) == [i \in 1..Len(directions) |-> add(p, directions[i])]

isOutsideField(d, p) == p[1] < 0 \/ d <= p[1] \/ p[2] < 0 \/ d <= p[2]

neighbors(d, p) ==
    SelectSeq(inDirs(p, ALL_DIRS), LAMBDA n : ~isOutsideField(d, n))

Range(s) == {s[i] : i \in 1..Len(s)}

\* All positions of a d x d field.
Positions(d) == (0..(d - 1)) \X (0..(d - 1))

-----------------------------------------------------------------------------
(* Grid access.  g is the flat array, a function on 0..d*d-1. *)

index(d, p) == p[1] + p[2] * d

getState(g, d, p) ==
    IF index(d, p) \in DOMAIN g THEN g[index(d, p)] ELSE Undefined

setState(g, d, p, newState) == [g EXCEPT ![index(d, p)] = newState]

isMine(g, d, p) == getState(g, d, p).kind = "Mine"

\* isEmpty that takes a flagged cell for one that is not empty.
isEmptyUnflagged(g, d, p) ==
    /\ ~isOutsideField(d, p)
    /\ getState(g, d, p).kind = "Close"
    /\ ~getState(g, d, p).flagged

isEmpty(g, d, p) == ~isOutsideField(d, p) /\ getState(g, d, p).kind = "Close"

\* getId that gives null, not 0, outside the field.
getIdNullOutside(g, d, p) ==
    IF isOutsideField(d, p) THEN NoId ELSE getState(g, d, p).id

getId(g, d, p) == IF isOutsideField(d, p) THEN 0 ELSE getState(g, d, p).id

hasId(g, d, id, p) == ~isEmpty(g, d, p) /\ getId(g, d, p) = id

getCommonIdInDirs(g, d, p, dir1, dir2) ==
    LET neighbor1 == add(p, dir1)
        neighbor2 == add(p, dir2)
    IN  IF /\ ~isEmpty(g, d, neighbor1)
           /\ ~isEmpty(g, d, neighbor2)
           /\ getId(g, d, neighbor1) = getId(g, d, neighbor2)
        THEN getId(g, d, neighbor1)
        ELSE NoId

\* isSurrounded that is false for a cell that is a Mine itself.
isSurroundedNonMine(g, d, p) ==
    /\ ~isMine(g, d, p)
    /\ \A n \in Range(neighbors(d, p)) : isMine(g, d, n)

isSurrounded(g, d, p) == \A n \in Range(neighbors(d, p)) : isMine(g, d, n)

\* One of the two axis branches of willCreateIsland, `id' the common id of
\* the two neighbors on the axis: side1 / side2 are the three neighbors on
\* either side of the axis, mid2 / mid1 the orthogonal neighbor of the
\* opposite side and far2 / far1 its two diagonals.
axisRule(g, d, p, id, side1, mid2, far2, side2, mid1, far1) ==
    IF \A n \in Range(inDirs(p, side1)) : hasId(g, d, id, n)
    THEN IF hasId(g, d, id, add(p, mid2))
         THEN ~(\E n \in Range(inDirs(p, far2)) : hasId(g, d, id, n))
         ELSE FALSE
    ELSE IF \A n \in Range(inDirs(p, side2)) : hasId(g, d, id, n)
         THEN IF hasId(g, d, id, add(p, mid1))
              THEN \E n \in Range(inDirs(p, far1)) : hasId(g, d, id, n)
              ELSE FALSE
         ELSE TRUE

willCreateIsland(g, d, p) ==
    LET idNS == getCommonIdInDirs(g, d, p, NORTH, SOUTH)
        idWE == getCommonIdInDirs(g, d, p, WEST, EAST)
    IN  IF idNS # NoId
        THEN axisRule(g, d, p, idNS,
                      << WEST, NORTHWEST, SOUTHWEST >>, EAST,
                      << SOUTHEAST, NORTHEAST >>,
                      << EAST, NORTHEAST, SOUTHEAST >>, WEST,
                      << SOUTHWEST, NORTHWEST >>)
        ELSE IF idWE # NoId
        THEN axisRule(g, d, p, idWE,
                      << NORTH, NORTHWEST, NORTHEAST >>, SOUTH,
                      << SOUTHWEST, SOUTHEAST >>,
                      << SOUTH, SOUTHWEST, SOUTHEAST >>, NORTH,
                      << NORTHWEST, NORTHEAST >>)
        ELSE \E i \in 1..Len(ORTHO_DIRS) :
                LET dir == ORTHO_DIRS[i]
                    clockwiseDir == clockwise(dir)
                    id == getCommonIdInDirs(g, d, p, dir, clockwiseDir)
                IN  id # NoId /\ hasId(g, d, id, add(add(p, dir), clockwiseDir))

\* generateMine's loop condition without its neighbors.any(isSurrounded)
\* disjunct.
rejectsSelfOnly(g, d, p) ==
    \/ isSurrounded(g, d, p)
    \/ willCreateIsland(g, d, p)

\* The condition of generateMine's while loop, pos tentatively a Mine.
rejects(g, d, p) ==
    \/ isSurrounded(g, d, p)
    \/ \E n \in Range(neighbors(d, p)) : isSurrounded(g, d, n)
    \/ willCreateIsland(g, d, p)


-----------------------------------------------------------------------------
(* Sequencing: F applied to the value of e, e computed once. *)

Then(F(_), e) == CHOOSE r \in {F(v) : v \in {e}} : TRUE

-----------------------------------------------------------------------------
(* Cluster ids *)

\* updateId that sets the id of pos and does not walk on to its neighbors.
updateIdShallow(g, d, p, newId, fromDirection) ==
    IF ~isOutsideField(d, p) /\ getId(g, d, p) # newId
    THEN [g EXCEPT ![index(d, p)].id = newId]
    ELSE g

RECURSIVE updateId(_, _, _, _, _), updateIdEach(_, _, _, _, _, _, _)

\* updateId(pos, newId, fromDirection); the result is the grid it leaves.
updateId(g, d, p, newId, fromDirection) ==
    IF ~isOutsideField(d, p) /\ getId(g, d, p) # newId
    THEN Then(LAMBDA g1 :
                  Then(LAMBDA mineDirs :
                           updateIdEach(g1, d, p, newId, fromDirection,
                                        mineDirs, 1),
                       SelectSeq(ORTHO_DIRS,
                                 LAMBDA dir : isMine(g1, d, add(p, dir)))),
              [g EXCEPT ![index(d, p)].id = newId])
    ELSE g

\* The mineDirs.each loop of updateId, from its i-th direction on.
updateIdEach(g, d, p, newId, fromDirection, mineDirs, i) ==
    IF i > Len(mineDirs)
    THEN g
    ELSE Then(LAMBDA g1 : updateIdEach(g1, d, p, newId, fromDirection,
                                       mineDirs, i + 1),
              IF mineDirs[i] # fromDirection
              THEN updateId(g, d, add(p, mineDirs[i]), newId,
                            negate(mineDirs[i]))
              ELSE g)

\* Math.min taken for Math.max.
MinAsMax(a, b) == IF a < b THEN b ELSE a

Min(a, b) == IF a < b THEN a ELSE b

RECURSIVE minNeighborId(_, _, _, _, _, _)

\* The first mineDirs.each loop of generateMine: the least of `id' and the
\* ids of the neighbors in mineDirs that are not null.
minNeighborId(g, d, p, mineDirs, i, id) ==
    IF i > Len(mineDirs)
    THEN id
    ELSE LET neighborId == getId(g, d, add(p, mineDirs[i]))
         IN  minNeighborId(g, d, p, mineDirs, i + 1,
                           IF neighborId # NoId THEN Min(id, neighborId)
                           ELSE id)

RECURSIVE propagateEach(_, _, _, _, _, _)

\* The second mineDirs.each loop of generateMine.
propagateEach(g, d, p, id, mineDirs, i) ==
    IF i > Len(mineDirs)
    THEN g
    ELSE Then(LAMBDA g1 : propagateEach(g1, d, p, id, mineDirs, i + 1),
              updateId(g, d, add(p, mineDirs[i]), id, negate(mineDirs[i])))

\* Directions generateMine treats as leading to a mine: not isEmpty.
acceptMineDirs(g, d, p) ==
    SelectSeq(ORTHO_DIRS, LAMBDA dir : ~isEmpty(g, d, add(p, dir)))

\* generateMine after its loop, pos accepted: the grid it leaves.
assignIds(g, d, p, cur) ==
    LET mineDirs == acceptMineDirs(g, d, p)
    IN  IF Len(mineDirs) > 0
        THEN LET id == minNeighborId(g, d, p, mineDirs, 1, cur)
                 g1 == [g EXCEPT ![index(d, p)].id = id]
             IN  propagateEach(g1, d, p, id, mineDirs, 1)
        ELSE g

\* What generateMine's id update does besides the grid it leaves: the
\* positions at which it evaluates getState (`lookups') and the cells whose
\* id an updateId call has set, in the order of the calls (`relabels').
IdTrace(g, lookups, relabels) ==
    [grid |-> g, lookups |-> lookups, relabels |-> relabels]

RECURSIVE updateIdTraced(_, _, _, _, _), updateIdEachTraced(_, _, _, _, _, _, _)

\* updateId that stops at the cells it has been to, whatever their id.
updateIdTracedVisited(t, d, p, newId, fromDirection) ==
    IF isOutsideField(d, p)
    THEN t
    ELSE IF isMine(t.grid, d, p) /\ p \notin Range(t.relabels)
    THEN Then(LAMBDA t1 :
                  Then(LAMBDA mineDirs :
                           updateIdEachTraced(t1, d, p, newId, fromDirection,
                                              mineDirs, 1),
                       SelectSeq(ORTHO_DIRS,
                                 LAMBDA dir : isMine(t1.grid, d, add(p, dir)))),
              IdTrace([t.grid EXCEPT ![index(d, p)].id = newId],
                      t.lookups \cup {p} \cup Range(inDirs(p, ORTHO_DIRS)),
                      Append(t.relabels, p)))
    ELSE [t EXCEPT !.lookups = @ \cup {p}]

\* updateId(pos, newId, fromDirection) on the trace t: `!isOutsideField(pos)
\* && getId(pos) != newId' reads the state of pos only if pos is in the
\* field; the filter of mineDirs calls isMine, and with it getState, on all
\* four orthogonal neighbors of pos, in the field or not.
updateIdTraced(t, d, p, newId, fromDirection) ==
    IF isOutsideField(d, p)
    THEN t
    ELSE IF getId(t.grid, d, p) # newId
    THEN Then(LAMBDA t1 :
                  Then(LAMBDA mineDirs :
                           updateIdEachTraced(t1, d, p, newId, fromDirection,
                                              mineDirs, 1),
                       SelectSeq(ORTHO_DIRS,
                                 LAMBDA dir : isMine(t1.grid, d, add(p, dir)))),
              IdTrace([t.grid EXCEPT ![index(d, p)].id = newId],
                      t.lookups \cup {p} \cup Range(inDirs(p, ORTHO_DIRS)),
                      Append(t.relabels, p)))
    ELSE [t EXCEPT !.lookups = @ \cup {p}]

\* The mineDirs.each loop of updateId on the trace, from its i-th direction.
updateIdEachTraced(t, d, p, newId, fromDirection, mineDirs, i) ==
    IF i > Len(mineDirs)
    THEN t
    ELSE Then(LAMBDA t1 : updateIdEachTraced(t1, d, p, newId, fromDirection,
                                             mineDirs, i + 1),
              IF mineDirs[i] # fromDirection
              THEN updateIdTraced(t, d, add(p, mineDirs[i]), newId,
                                  negate(mineDirs[i]))
              ELSE t)

RECURSIVE propagateEachTraced(_, _, _, _, _, _)

\* The second mineDirs.each loop of generateMine on the trace.
propagateEachTraced(t, d, p, id, mineDirs, i) ==
    IF i > Len(mineDirs)
    THEN t
    ELSE Then(LAMBDA t1 : propagateEachTraced(t1, d, p, id, mineDirs, i + 1),
              updateIdTraced(t, d, add(p, mineDirs[i]), id,
                             negate(mineDirs[i])))

\* generateMine after its loop, pos accepted, on the trace: isEmpty and getId
\* read the state of an orthogonal neighbor only if it is in the field.
assignIdsTraced(g, d, p, cur) ==
    LET mineDirs == acceptMineDirs(g, d, p)
        inField == {q \in Range(inDirs(p, ORTHO_DIRS)) : ~isOutsideField(d, q)}
    IN  IF Len(mineDirs) > 0
        THEN LET id == minNeighborId(g, d, p, mineDirs, 1, cur)
                 g1 == [g EXCEPT ![index(d, p)].id = id]
             IN  propagateEachTraced(IdTrace(g1, inField \cup {p}, << >>),
                                     d, p, id, mineDirs, 1)
        ELSE IdTrace(g, inField, << >>)

RECURSIVE buildMinablesClickOnly(_, _, _)

\* The pool without the clicked cell only.
buildMinablesClickOnly(d, click, i) ==
    IF i >= d * d
    THEN << >>
    ELSE LET p == << i % d, i \div d >>
         IN  (IF click # p THEN << p >> ELSE << >>)
                \o buildMinablesClickOnly(d, click, i + 1)

\* populateMines' first loop: the positions not adjacent to clickPos, row
\* by row.
RECURSIVE buildMinables(_, _, _)
buildMinables(d, click, i) ==
    IF i >= d * d
    THEN << >>
    ELSE LET p == << i % d, i \div d >>
         IN  (IF ~adjacentTo(click, p) THEN << p >> ELSE << >>)
                \o buildMinables(d, click, i + 1)

\* The loop of populateMines that runs one pass too many.
moreMinesOffByOne(numCreated, total) == LessEq(numCreated, total)

\* The condition of populateMines' generation loop.
moreMines(numCreated, total) == Less(numCreated, total)

\* removeItem that removes nothing.
removeItemNone(list, i) == list

\* removeItem that drops the last element whatever the index.
removeItemLast(list, i) == [j \in 1..(Len(list) - 1) |-> list[j]]

removeItem(list, i) ==
    [j \in 1..(Len(list) - 1) |-> IF j < i THEN list[j] ELSE list[j + 1]]

-----------------------------------------------------------------------------
(* Reveal *)

\* The state openCell reads and writes.
RevealState(g, flags, remaining, wins, stop, scr) ==
    [grid |-> g, numRemainingFlags |-> flags, remainingClearCells |-> remaining,
     winCalls |-> wins, stopTimer |-> stop, screen |-> scr]

\* win(): the timer is stopped and the win screen shown.
win(st) ==
    [st EXCEPT !.winCalls = @ + 1, !.stopTimer = TRUE, !.screen = "winScreen"]

\* The first neighbors.each loop of openCell.
mineCount(g, d, ns) == Cardinality({i \in 1..Len(ns) : isMine(g, d, ns[i])})

\* openCell up to `setState(pos, new Open())'.
markOpen(st, d, p) ==
    [st EXCEPT !.numRemainingFlags =
                   IF getState(st.grid, d, p).flagged THEN Plus(@, 1) ELSE @,
               !.grid = setState(@, d, p, Open)]

\* openCell from `remainingClearCells--' on.
countDown(st) ==
    IF Minus(st.remainingClearCells, 1) = 0
    THEN win([st EXCEPT !.remainingClearCells = Minus(@, 1)])
    ELSE [st EXCEPT !.remainingClearCells = Minus(@, 1)]

RECURSIVE openCell(_, _, _), openEach(_, _, _, _)

\* The flood loop of openCell that passes over flagged cells.
openEachUnflagged(st, d, ns, i) ==
    IF i > Len(ns)
    THEN st
    ELSE Then(LAMBDA st1 : openEach(st1, d, ns, i + 1),
              IF /\ isEmpty(st.grid, d, ns[i])
                 /\ ~getState(st.grid, d, ns[i]).flagged
              THEN openCell(st, d, ns[i])
              ELSE st)

\* openCell(pos); the result is the state it leaves.
openCell(st, d, p) ==
    Then(LAMBDA ns :
             Then(LAMBDA st3 : countDown(st3),
                  Then(LAMBDA st2 : IF mineCount(st2.grid, d, ns) = 0
                                    THEN openEach(st2, d, ns, 1)
                                    ELSE st2,
                       markOpen(st, d, p))),
         neighbors(d, p))

RECURSIVE openListed(_, _, _, _)

\* openCell on every position of the list ns, from the i-th on.
openListed(st, d, ns, i) ==
    IF i > Len(ns)
    THEN st
    ELSE Then(LAMBDA st1 : openListed(st1, d, ns, i + 1),
              openCell(st, d, ns[i]))

\* The flood loop of openCell that picks the empty neighbors first and
\* opens them afterwards, whatever they have become in between.
openEachStale(st, d, ns, i) ==
    openListed(st, d, SelectSeq(ns, LAMBDA n : isEmpty(st.grid, d, n)), i)

\* The flood loop of openCell that leaves out the last neighbor.
openEachSkipLast(st, d, ns, i) ==
    IF i >= Len(ns)
    THEN st
    ELSE Then(LAMBDA st1 : openEach(st1, d, ns, i + 1),
              IF isEmpty(st.grid, d, ns[i]) THEN openCell(st, d, ns[i]) ELSE st)

\* The second neighbors.each loop of openCell, from its i-th neighbor on.
openEach(st, d, ns, i) ==
    IF i > Len(ns)
    THEN st
    ELSE Then(LAMBDA st1 : openEach(st1, d, ns, i + 1),
              IF isEmpty(st.grid, d, ns[i]) THEN openCell(st, d, ns[i]) ELSE st)

\* toggleFlag that puts a new Close object in the place of the state.
toggleFlagAsClose(g, d, p, flags) ==
    IF getState(g, d, p).flagged
    THEN [grid |-> setState(g, d, p, Close),
          numRemainingFlags |-> Plus(flags, 1)]
    ELSE [grid |-> setState(g, d, p, [Close EXCEPT !.flagged = TRUE]),
          numRemainingFlags |-> Minus(flags, 1)]

\* toggleFlag(pos): the grid and the flag counter it leaves.
toggleFlag(g, d, p, flags) ==
    IF getState(g, d, p).flagged
    THEN [grid |-> [g EXCEPT ![index(d, p)].flagged = FALSE],
          numRemainingFlags |-> Plus(flags, 1)]
    ELSE [grid |-> [g EXCEPT ![index(d, p)].flagged = TRUE],
          numRemainingFlags |-> Minus(flags, 1)]


-----------------------------------------------------------------------------
(* The round *)

\* The grid initGame builds: numCells = dimension * dimension appended
\* Close cells, none if numCells is NaN (`i < numCells' fails at once).
AllClosed(d) ==
    IF isNaN(d) THEN [i \in {} |-> Close] ELSE [i \in 0..(d * d - 1) |-> Close]

FlaggedCells(g) == {i \in DOMAIN g : g[i].flagged}

\* lose(): the timer is stopped and the canvas blocked.
lose ==
    /\ stopTimer' = TRUE
    /\ clickBlocker' = TRUE
    /\ isLost' = TRUE
    /\ loseCalls' = loseCalls + 1

\* initGame that does not make the grid anew.
initGameKeepsGrid(d, m) ==
    /\ currentId' = 1
    /\ hasGenMines' = FALSE
    /\ isLost' = FALSE
    /\ clickBlocker' = FALSE
    /\ numRemainingFlags' = m
    /\ stopTimer' = TRUE
    /\ remainingClearCells' = Minus(Times(d, d), m)
    /\ grid' = grid
    /\ populateCalls' = 0
    /\ winCalls' = 0
    /\ loseCalls' = 0

\* initGame() on a board of dimension d with m mines.
initGame(d, m) ==
    /\ currentId' = 1
    /\ hasGenMines' = FALSE
    /\ isLost' = FALSE
    /\ clickBlocker' = FALSE
    /\ numRemainingFlags' = m
    /\ stopTimer' = TRUE
    /\ remainingClearCells' = Minus(Times(d, d), m)
    /\ grid' = AllClosed(d)
    /\ populateCalls' = 0
    /\ winCalls' = 0
    /\ loseCalls' = 0

Init ==
    /\ dimension \in Dimensions
    /\ totalMines \in MineCounts
    /\ grid = AllClosed(dimension)
    /\ minables = << >>
    /\ currentId = 1
    /\ hasGenMines = FALSE
    /\ isLost = FALSE
    /\ numRemainingFlags = totalMines
    /\ remainingClearCells = dimension * dimension - totalMines
    /\ stopTimer = TRUE
    /\ screen = "gameScreen"
    /\ clickBlocker = FALSE
    /\ pc = "idle"
    /\ clickPos = NoPos
    /\ clickedKind = "none"
    /\ pos = NoPos
    /\ numCreatedMines = 0
    /\ populateCalls = 0
    /\ winCalls = 0
    /\ loseCalls = 0
    /\ lastError = NoError
    /\ pendingTicks = 0
    /\ newDimension = dimension
    /\ newTotalMines = totalMines

\* The canvas takes a click: the game screen is shown, the click blocker is
\* not, and no handler is running.
CanvasClickable ==
    /\ pc = "idle"
    /\ screen = "gameScreen"
    /\ ~clickBlocker

\* The end of the click handler without its `state instanceof Mine' branch:
\* openCell for a Mine as for a Close.
loseOrOpenAny(p, kind, stop) ==
    IF kind \in {"Mine", "Close"}
    THEN LET st == openCell(RevealState(grid, numRemainingFlags,
                                        remainingClearCells, winCalls, stop,
                                        screen),
                            dimension, p)
         IN  /\ grid' = st.grid
             /\ numRemainingFlags' = st.numRemainingFlags
             /\ remainingClearCells' = st.remainingClearCells
             /\ winCalls' = st.winCalls
             /\ stopTimer' = st.stopTimer
             /\ screen' = st.screen
             /\ UNCHANGED << clickBlocker, isLost, loseCalls >>
    ELSE /\ stopTimer' = stop
         /\ UNCHANGED << grid, numRemainingFlags, remainingClearCells,
                         winCalls, screen, clickBlocker, isLost, loseCalls >>

\* The part of the click handler after `if (!hasGenMines) {...}': lose() on a
\* Mine, openCell on a Close, with `kind' the constructor of `state'.
loseOrOpen(p, kind, stop) ==
    IF kind = "Mine"
    THEN /\ lose
         /\ UNCHANGED << grid, numRemainingFlags, remainingClearCells,
                         winCalls, screen >>
    ELSE IF kind = "Close"
    THEN LET st == openCell(RevealState(grid, numRemainingFlags,
                                        remainingClearCells, winCalls, stop,
                                        screen),
                            dimension, p)
         IN  /\ grid' = st.grid
             /\ numRemainingFlags' = st.numRemainingFlags
             /\ remainingClearCells' = st.remainingClearCells
             /\ winCalls' = st.winCalls
             /\ stopTimer' = st.stopTimer
             /\ screen' = st.screen
             /\ UNCHANGED << clickBlocker, isLost, loseCalls >>
    ELSE /\ stopTimer' = stop
         /\ UNCHANGED << grid, numRemainingFlags, remainingClearCells,
                         winCalls, screen, clickBlocker, isLost, loseCalls >>

\* The shift-click branch without its `!(state instanceof Open)' guard.
ShiftClickNoGuard(p) ==
    /\ CanvasClickable
    /\ LET state == getState(grid, dimension, p)
       IN  /\ state.flagged \/ Cardinality(FlaggedCells(grid)) < MaxFlags
           /\ LET r == toggleFlag(grid, dimension, p, numRemainingFlags)
              IN  /\ grid' = r.grid
                  /\ numRemainingFlags' = r.numRemainingFlags
    /\ lastError' = NoError
    /\ UNCHANGED << dimension, totalMines, minables, currentId, hasGenMines,
                    isLost, remainingClearCells, stopTimer, screen,
                    clickBlocker, pc, clickPos, clickedKind, pos,
                    numCreatedMines, populateCalls, winCalls, loseCalls >>
    /\ UNCHANGED << pendingTicks, newDimension, newTotalMines >>

\* The click handler on a grid without cells (dimension NaN): cellSize is
\* NaN, so clickPos is (NaN, NaN) for every click, getState gives undefined
\* and reading `state.flagged' (in toggleFlag, or in the handler's
\* `!state.flagged') throws before anything is changed.
ClickThrows ==
    /\ lastError' = TypeError
    /\ UNCHANGED << dimension, totalMines, grid, minables, currentId,
                    hasGenMines, isLost, numRemainingFlags,
                    remainingClearCells, stopTimer, screen, clickBlocker, pc,
                    clickPos, clickedKind, pos, numCreatedMines,
                    populateCalls, winCalls, loseCalls, pendingTicks,
                    newDimension, newTotalMines >>

\* Canvas click with the shift key.
ShiftClick(p) ==
    /\ CanvasClickable
    /\ IF getState(grid, dimension, p) = Undefined
       THEN ClickThrows
       ELSE /\ LET state == getState(grid, dimension, p)
               IN  IF state.kind # "Open"
                   THEN /\ state.flagged \/ Cardinality(FlaggedCells(grid)) < MaxFlags
                        /\ LET r == toggleFlag(grid, dimension, p, numRemainingFlags)
                           IN  /\ grid' = r.grid
                               /\ numRemainingFlags' = r.numRemainingFlags
                   ELSE UNCHANGED << grid, numRemainingFlags >>
            /\ lastError' = NoError
            /\ UNCHANGED << dimension, totalMines, minables, currentId, hasGenMines,
                            isLost, remainingClearCells, stopTimer, screen,
                            clickBlocker, pc, clickPos, clickedKind, pos,
                            numCreatedMines, populateCalls, winCalls, loseCalls >>
            /\ UNCHANGED << pendingTicks, newDimension, newTotalMines >>

\* The click handler with its `!state.flagged' test made for Close cells
\* only.
ClickFlaggedMineLoses(p) ==
    /\ CanvasClickable
    /\ LET state == getState(grid, dimension, p)
       IN  /\ state.flagged \/ hasGenMines
           /\ IF state.flagged /\ state.kind # "Mine"
              THEN UNCHANGED << grid, numRemainingFlags, remainingClearCells,
                                winCalls, stopTimer, screen, clickBlocker,
                                isLost, loseCalls >>
              ELSE loseOrOpen(p, state.kind, stopTimer)
    /\ lastError' = NoError
    /\ UNCHANGED << dimension, totalMines, minables, currentId, hasGenMines,
                    pc, clickPos, clickedKind, pos, numCreatedMines,
                    populateCalls >>
    /\ UNCHANGED << pendingTicks, newDimension, newTotalMines >>

\* Canvas click without the shift key, mines already generated (or the cell
\* flagged, which ends the handler at once).
Click(p) ==
    /\ CanvasClickable
    /\ IF getState(grid, dimension, p) = Undefined
       THEN ClickThrows
       ELSE /\ LET state == getState(grid, dimension, p)
               IN  /\ state.flagged \/ hasGenMines
                   /\ IF state.flagged
                      THEN UNCHANGED << grid, numRemainingFlags, remainingClearCells,
                                        winCalls, stopTimer, screen, clickBlocker,
                                        isLost, loseCalls >>
                      ELSE loseOrOpen(p, state.kind, stopTimer)
            /\ lastError' = NoError
            /\ UNCHANGED << dimension, totalMines, minables, currentId, hasGenMines,
                            pc, clickPos, clickedKind, pos, numCreatedMines,
                            populateCalls >>
            /\ UNCHANGED << pendingTicks, newDimension, newTotalMines >>

\* Canvas click without the shift key on an unflagged cell, no mines
\* generated yet: the handler enters populateMines, which builds minables.
FirstClick(p) ==
    /\ CanvasClickable
    /\ getState(grid, dimension, p) # Undefined
    /\ ~getState(grid, dimension, p).flagged
    /\ ~hasGenMines
    /\ populateCalls < MaxPopulateCalls
    /\ pendingTicks < MaxPendingTicks
    /\ populateCalls' = populateCalls + 1
    /\ clickPos' = p
    /\ clickedKind' = getState(grid, dimension, p).kind
    /\ minables' = buildMinables(dimension, p, 0)
    /\ numCreatedMines' = 0
    /\ pos' = NoPos
    /\ pc' = IF moreMines(0, totalMines) THEN "draw" ELSE "finish"
    /\ lastError' = NoError
    /\ UNCHANGED << dimension, totalMines, grid, currentId, hasGenMines,
                    isLost, numRemainingFlags, remainingClearCells, stopTimer,
                    screen, clickBlocker, winCalls, loseCalls >>
    /\ UNCHANGED << pendingTicks, newDimension, newTotalMines >>

\* randomMinablePos() on an empty list: the error leaves generateMine,
\* populateMines and the click handler.
DrawThrow ==
    /\ pc = "draw"
    /\ Len(minables) = 0
    /\ lastError' = PoolError
    /\ pc' = "idle"
    /\ clickPos' = NoPos
    /\ clickedKind' = "none"
    /\ pos' = NoPos
    /\ numCreatedMines' = 0
    /\ UNCHANGED << dimension, totalMines, grid, minables, currentId,
                    hasGenMines, isLost, numRemainingFlags,
                    remainingClearCells, stopTimer, screen, clickBlocker,
                    populateCalls, winCalls, loseCalls >>
    /\ UNCHANGED << pendingTicks, newDimension, newTotalMines >>

\* randomMinablePos() returns minables[i], which generateMine makes a Mine.
Draw(i) ==
    /\ pc = "draw"
    /\ i \in 1..Len(minables)
    /\ pos' = minables[i]
    /\ minables' = removeItem(minables, i)
    /\ grid' = setState(grid, dimension, minables[i], Mine(NoId))
    /\ pc' = "check"
    /\ UNCHANGED << dimension, totalMines, currentId, hasGenMines, isLost,
                    numRemainingFlags, remainingClearCells, stopTimer, screen,
                    clickBlocker, clickPos, clickedKind, numCreatedMines,
                    populateCalls, winCalls, loseCalls, lastError >>
    /\ UNCHANGED << pendingTicks, newDimension, newTotalMines >>

\* A rejection that leaves the candidate a Mine.
RejectKeepsMine ==
    /\ pc = "check"
    /\ rejects(grid, dimension, pos)
    /\ pc' = "draw"
    /\ UNCHANGED << dimension, totalMines, grid, minables, currentId,
                    hasGenMines, isLost, numRemainingFlags,
                    remainingClearCells, stopTimer, screen, clickBlocker,
                    clickPos, clickedKind, pos, numCreatedMines,
                    populateCalls, winCalls, loseCalls, lastError >>
    /\ UNCHANGED << pendingTicks, newDimension, newTotalMines >>

\* generateMine's loop condition holds: the candidate is made Close again.
Reject ==
    /\ pc = "check"
    /\ rejects(grid, dimension, pos)
    /\ grid' = setState(grid, dimension, pos, Close)
    /\ pc' = "draw"
    /\ UNCHANGED << dimension, totalMines, minables, currentId, hasGenMines,
                    isLost, numRemainingFlags, remainingClearCells, stopTimer,
                    screen, clickBlocker, clickPos, clickedKind, pos,
                    numCreatedMines, populateCalls, winCalls, loseCalls,
                    lastError >>
    /\ UNCHANGED << pendingTicks, newDimension, newTotalMines >>

\* An acceptance without `currentId++'.
AcceptKeepsCurrentId ==
    /\ pc = "check"
    /\ ~rejects(grid, dimension, pos)
    /\ grid' = assignIds(grid, dimension, pos, currentId)
    /\ currentId' = currentId
    /\ numCreatedMines' = numCreatedMines + 1
    /\ pos' = NoPos
    /\ pc' = IF moreMines(numCreatedMines + 1, totalMines)
             THEN "draw"
             ELSE "finish"
    /\ UNCHANGED << dimension, totalMines, minables, hasGenMines, isLost,
                    numRemainingFlags, remainingClearCells, stopTimer, screen,
                    clickBlocker, clickPos, clickedKind, populateCalls,
                    winCalls, loseCalls, lastError >>
    /\ UNCHANGED << pendingTicks, newDimension, newTotalMines >>

\* generateMine's loop condition fails: the candidate is accepted, the ids
\* are updated and generateMine returns to populateMines' loop.
Accept ==
    /\ pc = "check"
    /\ ~rejects(grid, dimension, pos)
    /\ grid' = assignIds(grid, dimension, pos, currentId)
    /\ currentId' = IF Len(acceptMineDirs(grid, dimension, pos)) > 0
                    THEN currentId + 1
                    ELSE currentId
    /\ numCreatedMines' = numCreatedMines + 1
    /\ pos' = NoPos
    /\ pc' = IF moreMines(numCreatedMines + 1, totalMines)
             THEN "draw"
             ELSE "finish"
    /\ UNCHANGED << dimension, totalMines, minables, hasGenMines, isLost,
                    numRemainingFlags, remainingClearCells, stopTimer, screen,
                    clickBlocker, clickPos, clickedKind, populateCalls,
                    winCalls, loseCalls, lastError >>
    /\ UNCHANGED << pendingTicks, newDimension, newTotalMines >>

\* populateMines' loop is over: it starts the timer (stopTimer = false and a
\* tickTimer timeout) and returns, the handler sets hasGenMines and goes on
\* to lose() or openCell(clickPos).
Finish ==
    /\ pc = "finish"
    /\ hasGenMines' = TRUE
    /\ loseOrOpen(clickPos, clickedKind, FALSE)
    /\ pc' = "idle"
    /\ clickPos' = NoPos
    /\ clickedKind' = "none"
    /\ numCreatedMines' = 0
    /\ UNCHANGED << dimension, totalMines, minables, currentId, pos,
                    populateCalls, lastError, newDimension, newTotalMines >>
    /\ pendingTicks' = pendingTicks + 1

\* A tickTimer timeout runs: while the timer is not stopped it advances the
\* displayed time and sets the next timeout, otherwise it does nothing and
\* no timeout follows it.  Nothing cancels a timeout that is pending.
TickTimer ==
    /\ pc = "idle"
    /\ pendingTicks > 0
    /\ pendingTicks' = IF ~stopTimer THEN pendingTicks ELSE pendingTicks - 1
    /\ UNCHANGED << dimension, totalMines, grid, minables, currentId,
                    hasGenMines, isLost, numRemainingFlags,
                    remainingClearCells, stopTimer, screen, clickBlocker, pc,
                    clickPos, clickedKind, pos, numCreatedMines,
                    populateCalls, winCalls, loseCalls, lastError,
                    newDimension, newTotalMines >>

\* restartButton.
Restart ==
    /\ pc = "idle"
    /\ screen = "gameScreen"
    /\ initGame(dimension, totalMines)
    /\ lastError' = NoError
    /\ UNCHANGED << dimension, totalMines, minables, screen, pc, clickPos,
                    clickedKind, pos, numCreatedMines >>
    /\ UNCHANGED << pendingTicks, newDimension, newTotalMines >>

\* replayButton of the win screen.
Replay ==
    /\ pc = "idle"
    /\ screen = "winScreen"
    /\ initGame(dimension, totalMines)
    /\ screen' = "gameScreen"
    /\ lastError' = NoError
    /\ UNCHANGED << dimension, totalMines, minables, pc, clickPos,
                    clickedKind, pos, numCreatedMines >>
    /\ UNCHANGED << pendingTicks, newDimension, newTotalMines >>

\* The variables no button or input of the settings screen and of the
\* instructions screen changes, saveButton apart.
RoundVars == << dimension, totalMines, grid, minables, currentId,
               hasGenMines, isLost, numRemainingFlags, remainingClearCells,
               stopTimer, clickBlocker, pc, clickPos, clickedKind, pos,
               numCreatedMines, populateCalls, winCalls, loseCalls,
               lastError, pendingTicks >>

\* settingsButton of the game screen: the settings start at the values of
\* the round and the settings screen is shown.  The round is left as it is.
SettingsButton ==
    /\ pc = "idle"
    /\ screen = "gameScreen"
    /\ newDimension' = dimension
    /\ newTotalMines' = totalMines
    /\ screen' = "settingsScreen"
    /\ UNCHANGED RoundVars

\* instructionsButton of the game screen.
InstructionsButton ==
    /\ pc = "idle"
    /\ screen = "gameScreen"
    /\ screen' = "instructionsScreen"
    /\ UNCHANGED RoundVars
    /\ UNCHANGED << newDimension, newTotalMines >>

\* closeButton of the settings screen: back to the game, nothing saved and
\* no initGame.
CloseButton ==
    /\ pc = "idle"
    /\ screen = "settingsScreen"
    /\ screen' = "gameScreen"
    /\ UNCHANGED RoundVars
    /\ UNCHANGED << newDimension, newTotalMines >>

\* backButton of the instructions screen.
BackButton ==
    /\ pc = "idle"
    /\ screen = "instructionsScreen"
    /\ screen' = "gameScreen"
    /\ UNCHANGED RoundVars
    /\ UNCHANGED << newDimension, newTotalMines >>

\* The property "max" of minesSlider: settingsButton sets it from dimension
\* (which newDimension then equals) and adjustMinesSlider from newDimension;
\* it is NaN when that is.
maxTotalMines(nd) == IF isNaN(nd) THEN NaN ELSE (nd * nd) \div 3

\* adjustMinesSlider(): newTotalMines after it, for the new newDimension.
adjustMinesSlider(nd, nm) ==
    IF Less(maxTotalMines(nd), nm) THEN maxTotalMines(nd) ELSE nm

\* "change" of dimensionInput with v typed: 20 if v is above 20 or
\* newDimension (not v) is NaN, 4 if v is below 4, else v, which is NaN for
\* a text that is no number; then the mines are adjusted.
DimensionInputChange(v) ==
    /\ pc = "idle"
    /\ screen = "settingsScreen"
    /\ LET nd == IF isNaN(newDimension) \/ Less(20, v) THEN 20
                 ELSE IF Less(v, 4) THEN 4 ELSE v
       IN  /\ newDimension' = nd
           /\ newTotalMines' = adjustMinesSlider(nd, newTotalMines)
    /\ UNCHANGED RoundVars
    /\ UNCHANGED screen

\* "input" of dimensionSlider, moved to v.
DimensionSliderInput(v) ==
    /\ pc = "idle"
    /\ screen = "settingsScreen"
    /\ newDimension' = v
    /\ newTotalMines' = adjustMinesSlider(v, newTotalMines)
    /\ UNCHANGED RoundVars
    /\ UNCHANGED screen

\* "change" of minesInput with v typed: the slider's "max" if v is NaN or
\* above it, 4 if v is below 4, else v.
MinesInputChange(v) ==
    /\ pc = "idle"
    /\ screen = "settingsScreen"
    /\ newTotalMines' = IF isNaN(v) \/ Less(maxTotalMines(newDimension), v)
                            THEN maxTotalMines(newDimension)
                        ELSE IF Less(v, 4) THEN 4 ELSE v
    /\ UNCHANGED RoundVars
    /\ UNCHANGED << screen, newDimension >>

\* "input" of minesSlider, moved to v; the slider ends at its "max".
MinesSliderInput(v) ==
    /\ pc = "idle"
    /\ screen = "settingsScreen"
    /\ isNaN(maxTotalMines(newDimension)) \/ v <= maxTotalMines(newDimension)
    /\ newTotalMines' = v
    /\ UNCHANGED RoundVars
    /\ UNCHANGED << screen, newDimension >>

\* saveButton of the settings screen: the settings become those of the
\* game, a new round starts and the game screen is shown.
Save ==
    /\ pc = "idle"
    /\ screen = "settingsScreen"
    /\ dimension' = newDimension
    /\ totalMines' = newTotalMines
    /\ initGame(newDimension, newTotalMines)
    /\ screen' = "gameScreen"
    /\ lastError' = NoError
    /\ UNCHANGED << minables, pc, clickPos, clickedKind, pos,
                    numCreatedMines >>
    /\ UNCHANGED << pendingTicks, newDimension, newTotalMines >>

Next ==
    \/ \E p \in ShiftClickCells : ShiftClick(p)
    \/ \E p \in Positions(dimension) : Click(p)
    \/ \E p \in FirstClickCells : FirstClick(p)
    \/ DrawThrow
    \/ \E i \in 1..MaxDrawIndex : Draw(i)
    \/ Reject
    \/ Accept
    \/ Finish
    \/ Restart
    \/ Replay
    \/ SettingsButton
    \/ InstructionsButton
    \/ CloseButton
    \/ BackButton
    \/ \E v \in TypedDimensions : DimensionInputChange(v)
    \/ \E v \in Dimensions : DimensionSliderInput(v)
    \/ \E v \in TypedMineCounts : MinesInputChange(v)
    \/ \E v \in MineCounts : MinesSliderInput(v)
    \/ Save
    \/ TickTimer

Spec == Init /\ [][Next]_vars

\* First clicks in the model of the settings screen.
SettingsClickCells == {<< 0, 0 >>, << 1, 1 >>}

\* The boards on which the model of the settings screen generates mines.
Playable == dimension \in Dimensions /\ ~isNaN(totalMines)

\* The game with the settings screen: saveButton changes the board and the
\* number of mines, to NaN as well.  On a board that is not Playable the
\* player sets and removes flags, clicks where the handler ends at once
\* (a flagged cell, a grid without cells), restarts, reads the
\* instructions and visits the settings, and does not make the click that
\* generates the mines.
NextSettings ==
    \/ \E p \in ShiftClickCells : ShiftClick(p)
    \/ \E p \in Positions(dimension) : Playable /\ Click(p)
    \/ \E p \in ShiftClickCells : ~Playable /\ Click(p)
    \/ \E p \in SettingsClickCells : Playable /\ FirstClick(p)
    \/ DrawThrow
    \/ \E i \in 1..MaxDrawIndex : Draw(i)
    \/ Reject
    \/ Accept
    \/ Finish
    \/ Restart
    \/ Replay
    \/ SettingsButton
    \/ InstructionsButton
    \/ CloseButton
    \/ BackButton
    \/ \E v \in SettingsTypedDimensions : DimensionInputChange(v)
    \/ \E v \in SettingsDimensions : DimensionSliderInput(v)
    \/ \E v \in SettingsTypedMineCounts : MinesInputChange(v)
    \/ \E v \in SettingsMineCounts : MinesSliderInput(v)
    \/ Save
    \/ TickTimer

SpecSettings == Init /\ [][NextSettings]_vars

\* Generation alone: one populateMines call on the all-Close grid initGame
\* leaves, for every first click and every sequence of random draws.
NextGen ==
    \/ \E p \in Positions(dimension) : populateCalls = 0 /\ FirstClick(p)
    \/ DrawThrow
    \/ \E i \in 1..Len(minables) : Draw(i)
    \/ Reject
    \/ Accept

SpecGen == Init /\ [][NextGen]_vars

\* Generation on the larger board: one populateMines call after saveButton
\* has set the board of RingDimensions, the draws falling on RingCells in
\* every order.
InitRing ==
    /\ dimension \in RingDimensions
    /\ totalMines \in RingMineCounts
    /\ grid = AllClosed(dimension)
    /\ minables = << >>
    /\ currentId = 1
    /\ hasGenMines = FALSE
    /\ isLost = FALSE
    /\ numRemainingFlags = totalMines
    /\ remainingClearCells = dimension * dimension - totalMines
    /\ stopTimer = TRUE
    /\ screen = "gameScreen"
    /\ clickBlocker = FALSE
    /\ pc = "idle"
    /\ clickPos = NoPos
    /\ clickedKind = "none"
    /\ pos = NoPos
    /\ numCreatedMines = 0
    /\ populateCalls = 0
    /\ winCalls = 0
    /\ loseCalls = 0
    /\ lastError = NoError
    /\ pendingTicks = 0
    /\ newDimension = dimension
    /\ newTotalMines = totalMines

NextRing ==
    \/ populateCalls = 0 /\ FirstClick(RingClick)
    \/ \E i \in 1..Len(minables) : minables[i] \in RingCells /\ Draw(i)
    \/ Reject
    \/ Accept

SpecRing == InitRing /\ [][NextRing]_vars

\* Generation alone, run to its end, for the first clicks of LiveClickCells
\* and every sequence of random draws: the handler, once started, is not
\* interrupted, so a step of populateMines that can be taken is taken.
NextGenLive ==
    \/ \E p \in LiveClickCells : populateCalls = 0 /\ FirstClick(p)
    \/ DrawThrow
    \/ \E i \in 1..Len(minables) : Draw(i)
    \/ Reject
    \/ Accept

SpecGenLive == Init /\ [][NextGenLive]_vars /\ WF_vars(NextGenLive)

\* openCell(p) called on an Open cell.  No handler of the program makes
\* this call (the click handler and the flood call openCell for Close cells
\* only); the step shows what the function does when it is made, and
\* nothing runs after it.
CallOpenCell(p) ==
    /\ CanvasClickable
    /\ hasGenMines
    /\ getState(grid, dimension, p).kind = "Open"
    /\ LET st == openCell(RevealState(grid, numRemainingFlags,
                                      remainingClearCells, winCalls,
                                      stopTimer, screen),
                          dimension, p)
       IN  /\ grid' = st.grid
           /\ numRemainingFlags' = st.numRemainingFlags
           /\ remainingClearCells' = st.remainingClearCells
           /\ winCalls' = st.winCalls
           /\ stopTimer' = st.stopTimer
           /\ screen' = st.screen
    /\ pc' = "called"
    /\ UNCHANGED << dimension, totalMines, minables, currentId, hasGenMines,
                    isLost, clickBlocker, clickPos, clickedKind, pos,
                    numCreatedMines, populateCalls, loseCalls, lastError >>
    /\ UNCHANGED << pendingTicks, newDimension, newTotalMines >>

NextCall ==
    \/ Next
    \/ \E p \in Positions(dimension) : CallOpenCell(p)

SpecCall == Init /\ [][NextCall]_vars

-----------------------------------------------------------------------------
(* Properties *)

MineCells == {p \in Positions(dimension) : isMine(grid, dimension, p)}

NonMineCells == Positions(dimension) \ MineCells

CellsOfKind(g, kind) ==
    {p \in Positions(dimension) : getState(g, dimension, p).kind = kind}

RECURSIVE Grow(_, _)

\* The cells of `cells' that a chain of adjacent cells of `cells' joins to
\* `region' (8-connectivity).
Grow(region, cells) ==
    Then(LAMBDA next : IF next = region THEN region ELSE Grow(next, cells),
         region \cup {c \in cells : \E r \in region : adjacentTo(r, c)})

Connected(cells) ==
    cells = {} \/ Grow({CHOOSE c \in cells : TRUE}, cells) = cells

\* populateMines is between two placements or has returned: no candidate
\* is tentatively a Mine.
Settled == pc # "check"

\* C1: on a board built from the all-Close grid, after every accepted
\* placement and when populateMines returns, the cells that are not mines
\* form exactly one 8-connected component.
C1_SingleComponent ==
    Settled => (NonMineCells # {} /\ Connected(NonMineCells))

\* C2: on a board built from the all-Close grid, after every accepted
\* placement and when populateMines returns, every cell that is not a mine
\* has an in-bounds neighbor that is not a mine.
C2_NoFullSurround ==
    Settled => \A p \in NonMineCells : ~isSurrounded(grid, dimension, p)

\* populateMines has returned and some cell that is not a mine has exactly
\* one neighbor that is not a mine.
C2_Witness ==
    /\ pc = "finish"
    /\ \E p \in NonMineCells :
           Cardinality(Range(neighbors(dimension, p)) \ MineCells) = 1

\* C3: when populateMines, started on the all-Close grid, returns normally,
\* the grid holds exactly totalMines Mine cells, dimension^2 - totalMines
\* Close cells and no Open cell.
C3_MineCountExact ==
    pc = "finish" =>
        /\ Cardinality(MineCells) = totalMines
        /\ Cardinality(CellsOfKind(grid, "Close"))
               = dimension * dimension - totalMines
        /\ CellsOfKind(grid, "Open") = {}

\* populateMines has returned after at least one rejected candidate.
C3_Witness ==
    /\ pc = "finish"
    /\ numCreatedMines = totalMines
    /\ Len(minables) + totalMines
           < Len(buildMinables(dimension, clickPos, 0))

\* The cells within Chebyshev distance 1 of the click, the click included.
SafeZone == {p \in Positions(dimension) : adjacentTo(clickPos, p)}

\* C4: at every point during populateMines(clickPos) and when it returns, no
\* cell within Chebyshev distance 1 of clickPos is a Mine, a tentative one
\* included.
C4_SafeZone ==
    pc \in {"draw", "check", "finish"} => SafeZone \cap MineCells = {}

\* C5: after every accepted placement and when populateMines returns, two
\* orthogonally adjacent Mine cells carry the same id.
C5_ClusterClosure ==
    Settled =>
        \A p \in MineCells : \A i \in 1..Len(ORTHO_DIRS) :
            LET q == add(p, ORTHO_DIRS[i])
            IN  (~isOutsideField(dimension, q) /\ isMine(grid, dimension, q))
                    => getId(grid, dimension, p) = getId(grid, dimension, q)

\* populateMines has returned with a cluster of two or more mines that has
\* an id of its own (it does not touch the border).
C5_Witness ==
    /\ pc = "finish"
    /\ \E p \in MineCells :
           /\ getId(grid, dimension, p) > 0
           /\ Cardinality({q \in MineCells :
                               getId(grid, dimension, q)
                                   = getId(grid, dimension, p)}) >= 2

\* C6: in a round, win() is called exactly once, when the last cell that is
\* not a mine becomes Open, and never while fewer than
\* dimension^2 - totalMines cells are Open.
C6_WinTrigger ==
    /\ winCalls <= 1
    /\ winCalls = 1 =>
           Cardinality(CellsOfKind(grid, "Open"))
               >= dimension * dimension - totalMines
    /\ (hasGenMines /\ pc = "idle" /\ NonMineCells = CellsOfKind(grid, "Open"))
           => winCalls = 1

\* The cells with no Mine among their neighbors.
ZeroCells(g) ==
    {p \in Positions(dimension) :
         ~isMine(g, dimension, p)
             /\ \A n \in Range(neighbors(dimension, p)) : ~isMine(g, dimension, n)}

\* What openCell(p) is to open on grid g.
RevealSet(g, p) ==
    IF p \in ZeroCells(g)
    THEN LET region == Grow({p}, ZeroCells(g))
         IN  region \cup UNION {Range(neighbors(dimension, z)) : z \in region}
    ELSE {p}

\* The step is a call openCell(p) on a Close cell that is not a mine: by a
\* click on the cell or by the click that generated the mines.
OpenCellCalled(p) ==
    \/ /\ Click(p)
       /\ getState(grid, dimension, p).kind = "Close"
       /\ ~getState(grid, dimension, p).flagged
    \/ /\ Finish
       /\ clickPos = p
       /\ clickedKind = "Close"

\* C7: openCell(p) on a Close cell that is not a mine turns Open exactly
\* {p} if p has a Mine neighbor, and otherwise the maximal 8-connected
\* region of cells without Mine neighbors that contains p together with all
\* in-bounds neighbors of the region; it changes no other cell.
C7_RevealSet ==
    [][\A p \in Positions(dimension) :
           OpenCellCalled(p) =>
               /\ CellsOfKind(grid', "Open")
                      = CellsOfKind(grid, "Open") \cup RevealSet(grid, p)
               /\ \A q \in Positions(dimension) \ RevealSet(grid, p) :
                      getState(grid', dimension, q)
                          = getState(grid, dimension, q)]_vars

\* A flood has opened a region of several cells and stopped before the
\* whole field was open.
C7_Witness ==
    /\ hasGenMines
    /\ pc = "idle"
    /\ \E p \in ZeroCells(grid) : getState(grid, dimension, p).kind = "Open"
    /\ \E q \in NonMineCells : getState(grid, dimension, q).kind = "Close"

\* C8: openCell(p) on an Open cell changes no cell state and not
\* remainingClearCells, and does not call win().
C8_OpenIsNoOp ==
    [][\A p \in Positions(dimension) :
           CallOpenCell(p) =>
               UNCHANGED << grid, remainingClearCells, winCalls >>]_vars

\* C9: populateMines ends with the error "No minable spaces left!" exactly
\* when randomMinablePos is called on an empty list with fewer than
\* totalMines mines accepted; the error ends the handler without another
\* attempt, the last rejected candidate is Close again and every Mine of the
\* grid is an accepted one.
C9_PoolExhausted ==
    [][/\ (lastError' = PoolError)
              <=> (pc = "draw" /\ Len(minables) = 0)
       /\ (lastError' = PoolError) =>
              /\ numCreatedMines < totalMines
              /\ pc' = "idle"
              /\ populateCalls' = populateCalls
              /\ hasGenMines' = hasGenMines
              /\ grid' = grid
              /\ pos # NoPos => getState(grid, dimension, pos) = Close
              /\ Cardinality(MineCells) = numCreatedMines]_vars

\* populateMines has thrown after it accepted mines and rejected others.
C9_Witness ==
    /\ lastError = PoolError
    /\ pc = "idle"
    /\ MineCells # {}
    /\ Cardinality(MineCells) < totalMines

\* C10: whenever hasGenMines is true, exactly totalMines cells are Mine.
C10_MineCountInvariant ==
    hasGenMines => Cardinality(MineCells) = totalMines

\* Some cell of the field has all its in-bounds neighbors Mine.
SomeCellSurrounded ==
    \E p \in Positions(dimension) : isSurrounded(grid, dimension, p)

\* C11: the validator rejects a candidate (pos tentatively a Mine) only if
\* with the mine at pos some cell has all its neighbors Mine or the cells
\* that are not mines fall into two or more 8-connected components.
C11_RejectsOnlyIfHarmful ==
    (pc = "check" /\ rejects(grid, dimension, pos))
        => (SomeCellSurrounded \/ ~Connected(NonMineCells))

\* populateMines has just built the pool for a first click on (0,0).
PoolBuiltAtOrigin ==
    /\ pc = "draw"
    /\ clickPos = << 0, 0 >>
    /\ numCreatedMines = 0
    /\ pos = NoPos

\* C12 (as the code has it): on a 4 x 4 board with the first click at
\* (0,0) the pool populateMines builds holds 12 of the 16 cells, all but
\* the four in-bounds cells of the 3 x 3 block around (0,0).
C12_PoolSizeAtOrigin ==
    (PoolBuiltAtOrigin /\ dimension = 4) =>
        /\ Len(minables) = 12
        /\ Range(minables)
               = Positions(dimension)
                     \ {<< 0, 0 >>, << 1, 0 >>, << 0, 1 >>, << 1, 1 >>}

C12_Witness == PoolBuiltAtOrigin /\ dimension = 4 /\ Len(minables) > 0

\* C12 (as stated): on a 4 x 4 board with the first click at (0,0) the pool
\* populateMines builds holds 7 of the 16 cells.
C12_PoolOfSeven ==
    (PoolBuiltAtOrigin /\ dimension = 4) => Len(minables) = 7

\* C13: generation and reveal are disjoint in time: if any cell is Open,
\* hasGenMines is true, and no populateMines call is running (none starts
\* while some cell is Open).
C13_RevealAfterGeneration ==
    CellsOfKind(grid, "Open") # {} => (hasGenMines /\ pc = "idle")

\* Cells are Open in a round whose first populateMines call has thrown.
C13_Witness ==
    /\ CellsOfKind(grid, "Open") # {}
    /\ populateCalls = 2
    /\ hasGenMines

\* C14: a shift-click on a Close or Mine cell flips the flagged bit of that
\* cell and changes nothing else of the grid; a shift-click on an Open cell
\* changes no cell and no counter.
C14_ShiftClickFrame ==
    [][\A p \in Positions(dimension) :
           ShiftClick(p) =>
               IF getState(grid, dimension, p).kind = "Open"
               THEN UNCHANGED << grid, numRemainingFlags,
                                 remainingClearCells >>
               ELSE grid' = [grid EXCEPT ![index(dimension, p)].flagged = ~@]
      ]_vars

\* After generation one shift-clicked cell is a flagged Mine and another is
\* Open.
C14_Witness ==
    /\ hasGenMines
    /\ \E p \in ShiftClickCells :
           getState(grid, dimension, p).kind = "Mine"
               /\ getState(grid, dimension, p).flagged
    /\ \E q \in ShiftClickCells : getState(grid, dimension, q).kind = "Open"

\* The step is an initGame call: restartButton, replayButton or saveButton.
InitGameCalled ==
    Restart \/ Replay \/ Save

\* C15: a cell that is Open stays Open and unflagged under every click and
\* shift-click, until initGame makes the grid anew.
C15_OpenIsTerminal ==
    [][InitGameCalled
           \/ \A p \in CellsOfKind(grid, "Open") :
                  getState(grid', dimension, p) = Open]_vars

\* A round with cells opened by two or more calls of openCell from the
\* handler: some Open cell has a Mine neighbor and is not alone.
C15_Witness ==
    /\ hasGenMines
    /\ pc = "idle"
    /\ Cardinality(CellsOfKind(grid, "Open")) >= 2
    /\ \E p \in CellsOfKind(grid, "Open") \cap ShiftClickCells :
           p \notin ZeroCells(grid)

\* C16: a call openCell(p) on a Close cell ends, and no call of the
\* recursion is made on a cell that is already Open: each call (counted by
\* its decrement of remainingClearCells) opens a cell of its own, so there
\* are at most dimension^2 calls.
C16_OpenCellVisitsOnce ==
    [][\A p \in Positions(dimension) :
           OpenCellCalled(p) =>
               /\ remainingClearCells - remainingClearCells'
                      = Cardinality(CellsOfKind(grid', "Open")
                                        \ CellsOfKind(grid, "Open"))
               /\ remainingClearCells - remainingClearCells'
                      <= dimension * dimension]_vars

\* One call of openCell from the handler has opened five or more cells.
C16_Witness ==
    /\ hasGenMines
    /\ pc = "idle"
    /\ populateCalls = 1
    /\ dimension * dimension - totalMines - remainingClearCells >= 5
    /\ \E z \in ZeroCells(grid) :
           /\ getState(grid, dimension, z).kind = "Open"
           /\ \E y \in ZeroCells(grid) \ {z} : adjacentTo(z, y)

NoDuplicates(list) == Cardinality(Range(list)) = Len(list)

\* C17: within one populateMines call a position is drawn at most once:
\* the pool holds no position twice, no step adds to it, and a drawn
\* position (rejected or accepted afterwards) leaves it with the draw.
C17_DrawnOnce ==
    [][pc # "idle" =>
           /\ NoDuplicates(minables)
           /\ NoDuplicates(minables')
           /\ Range(minables') \subseteq Range(minables)
           /\ (pc = "draw" /\ pc' = "check") =>
                  /\ pos' \in Range(minables)
                  /\ Range(minables') = Range(minables) \ {pos'}]_vars

\* A candidate was rejected after a mine had been accepted, and positions
\* are left to draw.
C17_Witness ==
    /\ pc = "draw"
    /\ numCreatedMines >= 1
    /\ pos # NoPos
    /\ Len(minables) > 0

OrthoNeighbors(p) == {add(p, ORTHO_DIRS[i]) : i \in 1..Len(ORTHO_DIRS)}

touchesBorder(p) ==
    \E q \in OrthoNeighbors(p) : isOutsideField(dimension, q)

\* The Mine cells orthogonally adjacent to p on grid g.
AdjacentMines(g, p) ==
    {q \in OrthoNeighbors(p) :
         ~isOutsideField(dimension, q) /\ isMine(g, dimension, q)}

\* C18: every accepted mine carries an integer id once generateMine has
\* returned, and the id of an accepted mine with no orthogonally adjacent
\* Mine is carried by no other Mine.
C18_FreshIntegerId ==
    Settled =>
        \A p \in MineCells :
            /\ getId(grid, dimension, p) \in Nat
            /\ AdjacentMines(grid, p) = {} =>
                   \A q \in MineCells \ {p} :
                       getId(grid, dimension, q) # getId(grid, dimension, p)

MinOfSet(S) == CHOOSE x \in S : \A y \in S : x <= y

RECURSIVE GrowOrtho(_, _)

\* The cells of `cells' joined to `region' by a chain of orthogonally
\* adjacent cells of `cells'.
GrowOrtho(region, cells) ==
    Then(LAMBDA next : IF next = region THEN region ELSE GrowOrtho(next, cells),
         region \cup {c \in cells : \E r \in region : c \in OrthoNeighbors(r)})

\* The cluster of p on grid g: the Mine cells joined to p orthogonally.
MineCluster(g, p) ==
    GrowOrtho({p}, {q \in Positions(dimension) : isMine(g, dimension, q)})

\* The ids of the Mine cells orthogonally adjacent to p, null left out.
AdjacentIds(g, p) ==
    {getId(g, dimension, q) : q \in AdjacentMines(g, p)} \ {NoId}

\* The step accepts the candidate pos, which has a Mine next to it.
AcceptsNextToMine == Accept /\ AdjacentMines(grid, pos) # {}

\* C19 (as the code has it): when the accepted mine at pos has an
\* orthogonally adjacent Mine, after the update pos and every Mine of its
\* cluster carry one id: the least of currentId, of 0 if pos is on the
\* border of the field, and of the ids the adjacent Mine cells carried.
C19_MergedId ==
    [][AcceptsNextToMine =>
           \A q \in MineCluster(grid', pos) :
               getId(grid', dimension, q)
                   = MinOfSet({currentId}
                                  \cup (IF touchesBorder(pos) THEN {0} ELSE {})
                                  \cup AdjacentIds(grid, pos))]_vars

\* Between placements a Mine that is not on the border carries 0: its
\* cluster was merged with one that reaches the border.
C19_Witness ==
    /\ Settled
    /\ pc # "idle"
    /\ \E p \in MineCells :
           /\ ~touchesBorder(p)
           /\ getId(grid, dimension, p) = 0

\* C19 (as stated): when the accepted mine at pos has an orthogonally
\* adjacent Mine, after the update pos and every Mine of its cluster carry
\* the least id the adjacent Mine cells carried before the placement.
C19_MinOfAdjacentIds ==
    [][AcceptsNextToMine =>
           /\ AdjacentIds(grid, pos) # {}
           /\ \A q \in MineCluster(grid', pos) :
                  getId(grid', dimension, q)
                      = MinOfSet(AdjacentIds(grid, pos))]_vars

\* C20: once generation has succeeded, no click or shift-click changes
\* which cells are Mine or the id of a Mine, until initGame; a Mine never
\* becomes Open.
C20_MinesFrozen ==
    [][(hasGenMines /\ ~InitGameCalled) =>
           \A p \in Positions(dimension) :
               /\ isMine(grid', dimension, p) <=> isMine(grid, dimension, p)
               /\ getId(grid', dimension, p) = getId(grid, dimension, p)
                      \/ ~isMine(grid, dimension, p)]_vars

\* A Mine was clicked after generation (the round is lost) and a Mine
\* carries a flag.
C20_Witness ==
    /\ hasGenMines
    /\ loseCalls = 1
    /\ \E p \in MineCells : getState(grid, dimension, p).flagged

\* The id update generateMine makes if it accepts the candidate pos.
AcceptTrace == assignIdsTraced(grid, dimension, pos, currentId)

\* populateMines is about to accept the candidate pos.
AboutToAccept == pc = "check" /\ ~rejects(grid, dimension, pos)

\* The positions openCell(p) reads on grid g: each call on a cell q reads q
\* and the neighbors of q that neighbors() lets through.
RevealLookups(g, p) ==
    UNION {{q} \cup Range(neighbors(dimension, q)) : q \in RevealSet(g, p)}

\* C21: during populate and reveal getState and setState are evaluated at
\* positions of the field only: the candidate and the click, the isMine
\* lookups updateId makes around every cell it re-labels, and the cells
\* openCell reads.
C21_InBoundsAccess ==
    /\ pc = "check" => pos \in Positions(dimension)
    /\ AboutToAccept => AcceptTrace.lookups \subseteq Positions(dimension)
    /\ pc = "finish" =>
           /\ clickPos \in Positions(dimension)
           /\ RevealLookups(grid, clickPos) \subseteq Positions(dimension)

\* The candidate about to be accepted joins a cluster of two mines to the
\* border: updateId re-labels both.
C21_Witness ==
    /\ AboutToAccept
    /\ Len(AcceptTrace.relabels) >= 2
    /\ touchesBorder(pos)


\* The id generateMine gives the candidate pos if it accepts it.
AcceptId == getId(AcceptTrace.grid, dimension, pos)

\* C24: the updateId calls generateMine makes end, cycles of mines
\* included: every call that passes the guard re-labels a Mine whose id
\* differed from newId and that no earlier call has re-labelled, so there
\* are at most as many such calls as mines with another id; the grid they
\* leave is the one updateId is to leave.
C24_UpdateIdTerminates ==
    AboutToAccept =>
        /\ NoDuplicates(AcceptTrace.relabels)
        /\ Range(AcceptTrace.relabels)
               \subseteq {q \in MineCells \ {pos} :
                              getId(grid, dimension, q) # AcceptId}
        /\ AcceptTrace.grid = assignIds(grid, dimension, pos, currentId)

\* The closed ring of ten mines is about to be joined to the border:
\* updateId walks around the ring and re-labels all of its mines.
C24_Witness ==
    /\ AboutToAccept
    /\ RingCells \subseteq MineCells
    /\ Len(AcceptTrace.relabels) = 10


\* The cells that the step has turned Open.
NewlyOpen == CellsOfKind(grid', "Open") \ CellsOfKind(grid, "Open")

\* C22: the flood of openCell ignores flags: when a cell without Mine
\* neighbors is opened, each of its neighbors that was Close, flagged or
\* not, is Open afterwards, and every flag that stood on an opened cell is
\* given back to numRemainingFlags; a click without shift on a flagged cell
\* opens nothing.
C22_FloodIgnoresFlags ==
    [][\A p \in Positions(dimension) :
           /\ OpenCellCalled(p) =>
                  /\ \A z \in NewlyOpen \cap ZeroCells(grid) :
                         \A n \in Range(neighbors(dimension, z)) :
                             getState(grid, dimension, n).kind = "Close"
                                 => getState(grid', dimension, n) = Open
                  /\ numRemainingFlags' =
                         numRemainingFlags
                             + Cardinality({q \in NewlyOpen :
                                                getState(grid, dimension, q).flagged})
           /\ (Click(p) /\ getState(grid, dimension, p).flagged) =>
                  CellsOfKind(grid', "Open") = CellsOfKind(grid, "Open")]_vars

\* populateMines has returned and the handler is about to call openCell on
\* the clicked cell, which has no Mine neighbor and a flagged neighbor.
C22_Witness ==
    /\ pc = "finish"
    /\ clickedKind = "Close"
    /\ clickPos \in ZeroCells(grid)
    /\ \E n \in Range(neighbors(dimension, clickPos)) :
           /\ getState(grid, dimension, n).kind = "Close"
           /\ getState(grid, dimension, n).flagged


\* C23: a click without shift on a flagged cell changes nothing: a flagged
\* Close cell is not opened, a flagged Mine does not lose the round, and
\* populateMines is not run for it (the click that runs it is on a cell
\* without flag).
C23_FlaggedClickFrame ==
    [][\A p \in Positions(dimension) :
           /\ (Click(p) /\ getState(grid, dimension, p).flagged) =>
                  UNCHANGED << dimension, totalMines, grid, minables,
                               currentId, hasGenMines, isLost,
                               numRemainingFlags, remainingClearCells,
                               stopTimer, screen, clickBlocker, pc,
                               populateCalls, winCalls, loseCalls,
                               pendingTicks >>
           /\ FirstClick(p) => ~getState(grid, dimension, p).flagged]_vars

\* The canvas takes clicks in a round with cells Open, nothing lost, and a
\* Mine that carries a flag.
C23_Witness ==
    /\ CanvasClickable
    /\ hasGenMines
    /\ loseCalls = 0
    /\ CellsOfKind(grid, "Open") # {}
    /\ \E p \in MineCells : getState(grid, dimension, p).flagged

\* C26: after initGame (restart, replay, settings save) the grid has
\* dimension^2 cells, all Close without flag, hasGenMines is false,
\* currentId is 1, remainingClearCells is dimension^2 - totalMines and
\* numRemainingFlags is totalMines, whatever the round before was.
\* (With dimension NaN, saved after a text that is no number was typed
\* into dimensionInput, the grid has no cell, which is not dimension^2.)
C26_InitGameResets ==
    [][InitGameCalled =>
           /\ Cardinality(DOMAIN grid') = Times(dimension', dimension')
           /\ \A i \in DOMAIN grid' : grid'[i] = Close
           /\ ~hasGenMines'
           /\ currentId' = 1
           /\ remainingClearCells'
                  = Minus(Times(dimension', dimension'), totalMines')
           /\ numRemainingFlags' = totalMines']_vars

\* C27: between two handlers numRemainingFlags is totalMines less the
\* number of cells that carry a flag.
C27_FlagCount ==
    pc = "idle" =>
        numRemainingFlags = totalMines - Cardinality(FlaggedCells(grid))

\* C28: when the first click of a round that is not a shift-click is on a
\* cell without flag and populateMines returns, the click does not lose and
\* every cell of the field within Chebyshev distance 1 of it is Open when
\* the handler returns.
C28_FirstClickOpensZone ==
    [][(Finish /\ populateCalls = 1) =>
           /\ loseCalls' = 0
           /\ ~isLost'
           /\ \A q \in SafeZone : getState(grid', dimension, q) = Open]_vars

\* After the first click of a round, at an edge of the field: its six
\* cells are Open and nothing is lost.
C28_Witness ==
    /\ pc = "idle"
    /\ hasGenMines
    /\ populateCalls = 1
    /\ loseCalls = 0
    /\ \A q \in {<< 2, 0 >>, << 3, 0 >>, << 2, 1 >>, << 3, 1 >>, << 2, 2 >>,
                 << 3, 2 >>} : getState(grid, dimension, q) = Open

\* C29: at most one tickTimer timeout is pending at any time.
C29_OneTickPending == pendingTicks <= 1

\* C30: after every click, every Open cell without Mine neighbors has all
\* its neighbors in the field Open.
C30_ZeroCellsFlooded ==
    pc = "idle" =>
        \A z \in CellsOfKind(grid, "Open") \cap ZeroCells(grid) :
            \A n \in Range(neighbors(dimension, z)) :
                getState(grid, dimension, n) = Open

\* A flood has opened a cell without Mine neighbors and cells around it, one
\* of them next to a cell that is not a mine and still Close.
C30_Witness ==
    /\ pc = "idle"
    /\ hasGenMines
    /\ \E z \in CellsOfKind(grid, "Open") \cap ZeroCells(grid) :
           \E n \in Range(neighbors(dimension, z)) :
               \E c \in Range(neighbors(dimension, n)) \cap NonMineCells :
                   getState(grid, dimension, c).kind = "Close"


\* C25: every populateMines call ends, whatever the draws: each draw takes
\* one position from the pool and nothing puts one back, so after at most
\* as many draws as the pool had positions the call has returned with
\* totalMines mines accepted or has raised the error of the empty pool.
C25_PopulateTerminates ==
    /\ [][/\ (pc = "draw" /\ pc' = "check") =>
                 Len(minables') = Len(minables) - 1
          /\ (pc # "idle" /\ pc' # "idle") =>
                 Len(minables') <= Len(minables)]_vars
    /\ [](pc = "draw" =>
              <>(\/ pc = "finish" /\ numCreatedMines = totalMines
                 \/ pc = "idle" /\ lastError = PoolError))

\* populateMines has returned after it drew more than half of the pool.
C25_Witness ==
    /\ pc = "finish"
    /\ numCreatedMines = totalMines
    /\ 2 * Len(minables) < Len(buildMinables(dimension, clickPos, 0))


\* The mirror images of a position and of a grid: left-right (W <-> E) and
\* top-bottom (N <-> S).
MirrorLR(d, p) == << d - 1 - p[1], p[2] >>

MirrorTB(d, p) == << p[1], d - 1 - p[2] >>

MirroredLR(g, d) ==
    [i \in DOMAIN g |-> g[index(d, MirrorLR(d, << i % d, i \div d >>))]]

MirroredTB(g, d) ==
    [i \in DOMAIN g |-> g[index(d, MirrorTB(d, << i % d, i \div d >>))]]

\* generateMine's loop condition gets as far as willCreateIsland(pos):
\* neither pos nor a neighbor of pos is surrounded.
ReachesIslandTest ==
    /\ pc = "check"
    /\ ~isSurrounded(grid, dimension, pos)
    /\ ~\E n \in Range(neighbors(dimension, pos)) :
           isSurrounded(grid, dimension, n)

\* C31: willCreateIsland gives the same result for the neighborhood of the
\* candidate and for its left-right mirror image, and for its top-bottom
\* mirror image.
C31_MirrorInvariant ==
    ReachesIslandTest =>
        /\ willCreateIsland(grid, dimension, pos)
               = willCreateIsland(MirroredLR(grid, dimension), dimension,
                                  MirrorLR(dimension, pos))
        /\ willCreateIsland(grid, dimension, pos)
               = willCreateIsland(MirroredTB(grid, dimension), dimension,
                                  MirrorTB(dimension, pos))


\* C32: on a board built from the all-Close grid, after every accepted
\* placement and when populateMines returns, no cell of the field, Mine or
\* not, has all its neighbors in the field Mine.
C32_NoCellSurrounded ==
    Settled =>
        \A p \in Positions(dimension) :
            Range(neighbors(dimension, p)) \ MineCells # {}

\* A candidate has just been rejected that was the last neighbor of a Mine
\* that is not a mine itself.
C32_Witness ==
    /\ pc = "draw"
    /\ pos # NoPos
    /\ \E q \in MineCells :
           Range(neighbors(dimension, q)) \ MineCells = {pos}


\* C33: on a board built from the all-Close grid, after every accepted
\* placement, two Mine cells with the same positive id are joined by a path
\* of orthogonally adjacent Mine cells, and every Mine with id 0 is joined
\* by such a path to a Mine on the border of the field.
C33_IdsSound ==
    Settled =>
        \A p \in MineCells :
            /\ getId(grid, dimension, p) > 0 =>
                   \A q \in MineCells :
                       getId(grid, dimension, q) = getId(grid, dimension, p)
                           => q \in MineCluster(grid, p)
            /\ getId(grid, dimension, p) = 0 =>
                   \E q \in MineCluster(grid, p) : touchesBorder(q)

\* Between placements the board has two clusters with positive ids of their
\* own, one of three or more mines, and a mine with id 0.
C33_Witness ==
    /\ pc = "draw"
    /\ \E p \in MineCells :
           /\ getId(grid, dimension, p) > 0
           /\ Cardinality(MineCluster(grid, p)) >= 3
           /\ \E q \in MineCells :
                  /\ getId(grid, dimension, q) > 0
                  /\ getId(grid, dimension, q) # getId(grid, dimension, p)
    /\ \E z \in MineCells : getId(grid, dimension, z) = 0


=============================================================================
